---- MODULE Spec2Model ----
(***************************************************************************)
(* Model of SimulateFactory.build (ts/packages/anchor/src/program/         *)
(* namespace/simulate.ts): the `simulate` closure generated for one method *)
(* of a program.  A call runs synchronously up to the await of             *)
(* provider.simulate (lines 27-36) and resumes when the provider's promise *)
(* settles (lines 41-59).  Several calls of the same closure may be in     *)
(* flight at once.                                                         *)
(***************************************************************************)
EXTENDS Integers, Sequences, FiniteSets, TLC

(* ----------------------------- bounds --------------------------------- *)

\* longest log sequence a provider response carries
MaxLogLen == 3

\* largest number of arguments the method's IDL declares
MaxArity == 1

\* the simulate calls of the closure that the state keeps apart; Spec follows
\* call 1 alone over every input
Calls == {1, 2}

(* --------------------------- value domains ----------------------------- *)

\* a positional method argument
PosArg == [kind |-> "value"]

\* `let options = {}` : the Context used when none is supplied
EmptyContext == [kind |-> "context"]

\* Context objects a caller may pass as the trailing argument
Contexts ==
  { EmptyContext,
    [kind |-> "context", options |-> [skipPreflight |-> "true"]],
    [kind |-> "context", signers |-> "s1", options |-> [commitment |-> "confirmed"]] }

\* JS property read: a property an object lacks reads as undefined
Prop(obj, name) == IF name \in DOMAIN obj THEN obj[name] ELSE "undefined"

\* `ctx.options?.commitment`
OptCommitment(ctx) ==
  IF "options" \in DOMAIN ctx THEN Prop(ctx.options, "commitment") ELSE "undefined"

RECURSIVE Repeat(_, _)
Repeat(v, n) == IF n = 0 THEN << >> ELSE <<v>> \o Repeat(v, n - 1)

\* argument lists a caller may pass: k positional values, then optionally a Context
ArgLists ==
  { Repeat(PosArg, k) : k \in 0..(MaxArity + 1) }
    \cup { Repeat(PosArg, k) \o <<ctx>> : k \in 0..(MaxArity + 1), ctx \in Contexts }

\* event names an IDL may declare, with the discriminator that tags each payload
EventNames == {"E1", "E2"}

Discriminator(e) == IF e = "E1" THEN 1 ELSE 2

\* idl.events : undefined, or an array (here a set) of declared events
IdlEventsChoices ==
  { [t |-> "undefined"] } \cup { [t |-> "array", v |-> s] : s \in {{}, {"E1"}, EventNames} }

\* log lines: marker = the line carries the emission prefix, disc = the
\* discriminator its payload starts with (0 matches no event)
LogLines ==
  { [marker |-> FALSE, disc |-> 1],
    [marker |-> TRUE, disc |-> 0],
    [marker |-> TRUE, disc |-> 1],
    [marker |-> TRUE, disc |-> 2] }

RECURSIVE SeqsUpTo(_, _)
SeqsUpTo(S, n) ==
  IF n = 0 THEN { << >> }
  ELSE LET shorter == SeqsUpTo(S, n - 1)
       IN shorter \cup { Append(s, x) : s \in { t \in shorter : Len(t) = n - 1 }, x \in S }

\* what provider.simulate may resolve with: undefined, or a response whose
\* logs field is undefined, null or an array of lines
Responses ==
  { [t |-> "undefined"] }
    \cup { [t |-> "object", logs |-> [t |-> "undefined"]],
           [t |-> "object", logs |-> [t |-> "null"]] }
    \cup { [t |-> "object", logs |-> [t |-> "array", v |-> l]] : l \in SeqsUpTo(LogLines, MaxLogLen) }

\* idlErrors : Map<number, string>
IdlErrors == (6000 :> "InsufficientFunds") @@ (6001 :> "Unauthorized")

\* errors provider.simulate may reject with; code -1 = the error carries no code
ProviderErrors == { [code |-> c] : c \in {6000, 6001, 6002, -1} }

(* ------------------------------- state --------------------------------- *)

VARIABLES
  idlArity,        \* idlIx.args.length
  hasSimulate,     \* provider.simulate !== undefined
  idlEvents,       \* idl.events
  pc,              \* per call: "idle", "awaiting", "done"
  args,            \* per call: the argument list it was called with
  txCalls,         \* per call: the argument lists txFn was invoked with
  providerCalls,   \* per call: the (tx, signers, commitment) provider.simulate got
  settled,         \* per call: how the provider's promise settled
  parserCalls,     \* per call: the log sequences handed to parser.parseLogs
  outcome,         \* per call: the state of the returned promise
  history          \* the calls made and the provider promises settled, in order

vars ==
  <<idlArity, hasSimulate, idlEvents, pc, args, txCalls, providerCalls, settled,
    parserCalls, outcome, history>>

config == <<idlArity, hasSimulate, idlEvents>>

(* -------------------- collaborators outside this file ------------------ *)

\* txFn(...args) : the transaction built for an argument list
txFn(a) == [builtFrom |-> a]

MalformedArguments ==
  [name |-> "MalformedArguments", message |-> "fewer arguments than the schema requires"]

\* splitArgsAndCtx(idlIx, [...args])
splitArgsAndCtx(arity, a) ==
  IF Len(a) < arity THEN [threw |-> TRUE, error |-> MalformedArguments]
  ELSE IF Len(a) = arity + 1
    THEN [threw |-> FALSE, args |-> SubSeq(a, 1, arity), ctx |-> a[Len(a)]]
    ELSE [threw |-> FALSE, args |-> a, ctx |-> EmptyContext]

\* translateError(err, idlErrors)
translateError(err, idlErrs) ==
  IF err.code \in DOMAIN idlErrs
    THEN [name |-> "ProgramError", code |-> err.code, message |-> idlErrs[err.code],
          cause |-> err]
    ELSE [name |-> "UnknownError", cause |-> err]

\* the events the coder can decode: none when idl.events is undefined
EventSchemas(evs) == IF evs.t = "array" THEN evs.v ELSE {}

\* coder.events.decode(payload) : the declared event whose discriminator the
\* payload carries, or null
DecodeEvent(evs, line) ==
  LET match == { e \in EventSchemas(evs) : Discriminator(e) = line.disc }
  IN IF match = {} THEN [t |-> "null"]
     ELSE [t |-> "event", name |-> CHOOSE e \in match : TRUE, data |-> line.disc]

\* a parser that stops at the first line it cannot turn into an event
RECURSIVE parseLogs_StopAtBadLine(_, _)
parseLogs_StopAtBadLine(evs, lines) ==
  IF lines = << >> THEN << >>
  ELSE LET line == Head(lines)
           ev == DecodeEvent(evs, line)
       IN IF line.marker /\ ev.t = "event"
            THEN <<[name |-> ev.name, data |-> ev.data]>>
                   \o parseLogs_StopAtBadLine(evs, Tail(lines))
            ELSE << >>

\* new EventParser(programId, coder).parseLogs(logs) : the events generated,
\* in generation order; a line without the marker or with a payload that
\* does not decode generates nothing
RECURSIVE parseLogs(_, _)
parseLogs(evs, lines) ==
  IF lines = << >> THEN << >>
  ELSE LET line == Head(lines)
           ev == DecodeEvent(evs, line)
       IN IF line.marker /\ ev.t = "event"
            THEN <<[name |-> ev.name, data |-> ev.data]>> \o parseLogs(evs, Tail(lines))
            ELSE parseLogs(evs, Tail(lines))

(* ------------------------- the simulate closure ------------------------ *)

\* the capability check left out
ProviderCannotSimulate_Unchecked(has) == FALSE

\* line 30: provider.simulate === undefined
ProviderCannotSimulate(has) == ~has

\* lines 31-33
UnsupportedOperation ==
  [name |-> "UnsupportedOperation",
   message |-> "This function requires 'Provider.simulate' to be implemented."]

\* provider.simulate(tx, undefined, ctx.options?.commitment)
SimulateRequest_NoSigners(tx, ctx) ==
  [tx |-> tx, signers |-> "undefined", commitment |-> OptCommitment(ctx)]

\* lines 36-40: the arguments provider.simulate is invoked with
SimulateRequest(tx, ctx) ==
  [tx |-> tx, signers |-> Prop(ctx, "signers"), commitment |-> OptCommitment(ctx)]

\* the catch block rethrowing what it caught, untranslated
CatchHandler_Untranslated(err) == [name |-> "UnknownError", cause |-> err]

\* the catch block throwing a fresh error for a code the table lacks
CatchHandler_DropsCause(err) ==
  IF err.code \in DOMAIN IdlErrors THEN translateError(err, IdlErrors)
  ELSE [name |-> "UnknownError", message |-> "simulation failed"]

\* lines 41-43: what the catch block throws
CatchHandler(err) == translateError(err, IdlErrors)

\* the check of line 44 left out
RespMissing_Unchecked(resp) == FALSE

\* line 44: resp === undefined
RespMissing(resp) == resp.t = "undefined"

\* line 45
SimulationUnavailable ==
  [name |-> "SimulationUnavailable", message |-> "Unable to simulate transaction"]

\* logs === undefined in place of !logs
LogsMissing_UndefinedOnly(logs) == logs.t = "undefined"

\* !logs || logs.length === 0 in place of !logs
LogsMissing_EmptyToo(logs) ==
  logs.t \in {"undefined", "null"} \/ (logs.t = "array" /\ Len(logs.v) = 0)

\* line 48: !logs  (undefined and null are falsy, every array is truthy)
LogsMissing(logs) == logs.t \in {"undefined", "null"}

\* line 49
LogsNotFound == [name |-> "LogsNotFound", message |-> "Simulated logs not found"]

\* a property read or an iteration on undefined / null
TypeError == [name |-> "TypeError", message |-> "cannot read properties of undefined or null"]

\* if (!idl.events) in place of if (idl.events)
EventsTruthy_Inverted(evs) == evs.t # "array"

\* line 53: if (idl.events)  (undefined is falsy, every array is truthy)
EventsTruthy(evs) == evs.t = "array"

\* events.unshift(event) in place of events.push(event)
RECURSIVE PushAll_Unshift(_, _)
PushAll_Unshift(events, generated) ==
  IF generated = << >> THEN events
  ELSE PushAll_Unshift(<<Head(generated)>> \o events, Tail(generated))

\* lines 55-57: events.push(event) for each event the parser generates
RECURSIVE PushAll(_, _)
PushAll(events, generated) ==
  IF generated = << >> THEN events
  ELSE PushAll(Append(events, Head(generated)), Tail(generated))

\* raw keeping only the lines that carry no emission
SimulateResponse_RawWithoutEmissions(events, logs) ==
  [events |-> events,
   raw |-> [t |-> "array", v |-> SelectSeq(logs.v, LAMBDA l : ~l.marker)]]

\* a response without raw
SimulateResponse_NoRaw(events, logs) == [events |-> events]

\* line 59
SimulateResponse(events, logs) == [events |-> events, raw |-> logs]

Fulfilled(v) == [status |-> "fulfilled", value |-> v]

Rejected(e) == [status |-> "rejected", reason |-> e]

Pending == [status |-> "pending"]

\* lines 44-59: the rest of the call once the provider resolved with resp;
\* the result names the promise's final state and the parser's inputs
AfterResolve(evs, resp) ==
  IF RespMissing(resp) THEN [out |-> Rejected(SimulationUnavailable), parsed |-> << >>]
  ELSE IF resp.t # "object" THEN [out |-> Rejected(TypeError), parsed |-> << >>]
  ELSE LET logs == resp.logs
       IN IF LogsMissing(logs) THEN [out |-> Rejected(LogsNotFound), parsed |-> << >>]
          ELSE IF ~EventsTruthy(evs)
            THEN [out |-> Fulfilled(SimulateResponse(<< >>, logs)), parsed |-> << >>]
          ELSE IF logs.t # "array" THEN [out |-> Rejected(TypeError), parsed |-> <<logs>>]
          ELSE [out |-> Fulfilled(SimulateResponse(PushAll(<< >>, parseLogs(evs, logs.v)), logs)),
                parsed |-> <<logs>>]

(* ------------------------------ actions -------------------------------- *)

Init ==
  /\ idlArity \in 0..MaxArity
  /\ hasSimulate \in BOOLEAN
  /\ idlEvents \in IdlEventsChoices
  /\ pc = [c \in Calls |-> "idle"]
  /\ args = [c \in Calls |-> << >>]
  /\ txCalls = [c \in Calls |-> << >>]
  /\ providerCalls = [c \in Calls |-> << >>]
  /\ settled = [c \in Calls |-> [t |-> "pending"]]
  /\ parserCalls = [c \in Calls |-> << >>]
  /\ outcome = [c \in Calls |-> Pending]
  /\ history = << >>

\* a call that swallows what splitArgsAndCtx throws and goes on with an
\* empty Context
Call_IgnoresSplitError(c, ArgSet) ==
  /\ pc[c] = "idle"
  /\ hasSimulate
  /\ \E a \in ArgSet :
       LET split == splitArgsAndCtx(idlArity, a)
           ctx == IF split.threw THEN EmptyContext ELSE split.ctx
       IN /\ args' = [args EXCEPT ![c] = a]
          /\ txCalls' = [txCalls EXCEPT ![c] = Append(@, a)]
          /\ providerCalls' =
               [providerCalls EXCEPT ![c] = Append(@, SimulateRequest(txFn(a), ctx))]
  /\ pc' = [pc EXCEPT ![c] = "awaiting"]
  /\ history' = Append(history, [op |-> "call", call |-> c])
  /\ UNCHANGED <<config, settled, parserCalls, outcome>>

\* lines 26-36: simulate(...a) up to the await of provider.simulate, for an
\* argument list of ArgSet
Call(c, ArgSet) ==
  /\ pc[c] = "idle"
  /\ \E a \in ArgSet :
       LET tx == txFn(a)
           split == splitArgsAndCtx(idlArity, a)
       IN /\ args' = [args EXCEPT ![c] = a]
          /\ txCalls' = [txCalls EXCEPT ![c] = Append(@, a)]
          /\ IF split.threw
               THEN /\ outcome' = [outcome EXCEPT ![c] = Rejected(split.error)]
                    /\ pc' = [pc EXCEPT ![c] = "done"]
                    /\ UNCHANGED providerCalls
             ELSE IF ProviderCannotSimulate(hasSimulate)
               THEN /\ outcome' = [outcome EXCEPT ![c] = Rejected(UnsupportedOperation)]
                    /\ pc' = [pc EXCEPT ![c] = "done"]
                    /\ UNCHANGED providerCalls
             ELSE /\ providerCalls' =
                       [providerCalls EXCEPT ![c] = Append(@, SimulateRequest(tx, split.ctx))]
                  /\ pc' = [pc EXCEPT ![c] = "awaiting"]
                  /\ UNCHANGED outcome
  /\ history' = Append(history, [op |-> "call", call |-> c])
  /\ UNCHANGED <<config, settled, parserCalls>>

\* the events array declared once in build and shared by every call, in
\* place of one array per call (line 52)
ProviderResolves_SharedEvents(c, RespSet) ==
  /\ pc[c] = "awaiting"
  /\ \E resp \in RespSet :
       LET r == AfterResolve(idlEvents, resp)
           earlier == { d \in Calls \ {c} : outcome[d].status = "fulfilled" }
           carried == IF earlier = {} THEN << >>
                      ELSE outcome[CHOOSE d \in earlier : TRUE].value.events
           out == IF r.out.status = "fulfilled"
                    THEN Fulfilled(SimulateResponse(carried \o r.out.value.events,
                                                    r.out.value.raw))
                    ELSE r.out
       IN /\ settled' = [settled EXCEPT ![c] = [t |-> "resolved", resp |-> resp]]
          /\ parserCalls' = [parserCalls EXCEPT ![c] = @ \o r.parsed]
          /\ outcome' = [outcome EXCEPT ![c] = out]
  /\ pc' = [pc EXCEPT ![c] = "done"]
  /\ history' = Append(history, [op |-> "settle", call |-> c])
  /\ UNCHANGED <<config, args, txCalls, providerCalls>>

\* a decoding loop that never ends once the provider resolved
ProviderResolves_NeverReturns(c, RespSet) ==
  /\ pc[c] = "awaiting"
  /\ \E resp \in RespSet :
       settled' = [settled EXCEPT ![c] = [t |-> "resolved", resp |-> resp]]
  /\ pc' = [pc EXCEPT ![c] = "decoding"]
  /\ history' = Append(history, [op |-> "settle", call |-> c])
  /\ UNCHANGED <<config, args, txCalls, providerCalls, parserCalls, outcome>>

\* lines 36, 44-59: the provider's promise resolves with a response of RespSet
\* and the call runs to its end
ProviderResolves(c, RespSet) ==
  /\ pc[c] = "awaiting"
  /\ \E resp \in RespSet :
       LET r == AfterResolve(idlEvents, resp)
       IN /\ settled' = [settled EXCEPT ![c] = [t |-> "resolved", resp |-> resp]]
          /\ parserCalls' = [parserCalls EXCEPT ![c] = @ \o r.parsed]
          /\ outcome' = [outcome EXCEPT ![c] = r.out]
  /\ pc' = [pc EXCEPT ![c] = "done"]
  /\ history' = Append(history, [op |-> "settle", call |-> c])
  /\ UNCHANGED <<config, args, txCalls, providerCalls>>

\* a catch block that calls provider.simulate again before giving up
ProviderRejects_Retry(c, ErrSet) ==
  /\ pc[c] = "awaiting"
  /\ Len(providerCalls[c]) < 3
  /\ \E err \in ErrSet :
       settled' = [settled EXCEPT ![c] = [t |-> "rejected", err |-> err]]
  /\ providerCalls' = [providerCalls EXCEPT ![c] = Append(@, @[1])]
  /\ history' = Append(history, [op |-> "settle", call |-> c])
  /\ UNCHANGED <<config, pc, args, txCalls, parserCalls, outcome>>

\* lines 41-43: the provider's promise rejects with an error of ErrSet and the
\* catch block rethrows
ProviderRejects(c, ErrSet) ==
  /\ pc[c] = "awaiting"
  /\ \E err \in ErrSet :
       /\ settled' = [settled EXCEPT ![c] = [t |-> "rejected", err |-> err]]
       /\ outcome' = [outcome EXCEPT ![c] = Rejected(CatchHandler(err))]
  /\ pc' = [pc EXCEPT ![c] = "done"]
  /\ history' = Append(history, [op |-> "settle", call |-> c])
  /\ UNCHANGED <<config, args, txCalls, providerCalls, parserCalls>>

\* one call of the closure, over every input
Next ==
  \/ Call(1, ArgLists)
  \/ ProviderResolves(1, Responses)
  \/ ProviderRejects(1, ProviderErrors)

Spec == Init /\ [][Next]_vars

\* the provider's round trip of call 1 settles, one way or the other
ProviderSettles == ProviderResolves(1, Responses) \/ ProviderRejects(1, ProviderErrors)

\* one call of the closure on a provider whose round trip eventually settles
FairSpec == Init /\ [][Next]_vars /\ WF_vars(ProviderSettles)

\* the inputs of the concurrent calls
ConcurrentArgLists ==
  { << >>, <<PosArg>>,
    <<PosArg, [kind |-> "context", signers |-> "s1", options |-> [commitment |-> "confirmed"]]>> }

ConcurrentResponses ==
  { [t |-> "undefined"], [t |-> "object", logs |-> [t |-> "null"]] }
    \cup { [t |-> "object", logs |-> [t |-> "array", v |-> l]] :
             l \in { << >>,
                     <<[marker |-> TRUE, disc |-> 1]>>,
                     <<[marker |-> TRUE, disc |-> 2], [marker |-> TRUE, disc |-> 0],
                       [marker |-> TRUE, disc |-> 1]>> } }

ConcurrentErrors == { [code |-> c] : c \in {6000, 6002} }

\* every call of Calls, in flight together, their round trips settling in any order
NextConcurrent ==
  \E c \in Calls :
    \/ Call(c, ConcurrentArgLists)
    \/ ProviderResolves(c, ConcurrentResponses)
    \/ ProviderRejects(c, ConcurrentErrors)

SpecConcurrent == Init /\ [][NextConcurrent]_vars

(* ------------------------------ properties ----------------------------- *)

Done(c) == pc[c] = "done"

Succeeded(c) == Done(c) /\ outcome[c].status = "fulfilled"

\* the call failed with an error named n
FailedWith(c, n) ==
  Done(c) /\ outcome[c].status = "rejected" /\ outcome[c].reason.name = n

\* lines 27-28 raised nothing for the call's argument list
ArgsAccepted(c) == pc[c] # "idle" /\ ~splitArgsAndCtx(idlArity, args[c]).threw

\* the provider resolved the call's request with a response object
ResolvedWithObject(c) ==
  settled[c].t = "resolved" /\ settled[c].resp.t = "object"

\* the provider resolved the call's request with a response carrying a log array
ResolvedWithLogs(c) == ResolvedWithObject(c) /\ settled[c].resp.logs.t = "array"

\* C1 as stated: every completed call on a provider without the simulation
\* capability failed with UnsupportedOperation and made no provider call.
C1_UnsupportedOnEveryCall ==
  \A c \in Calls :
    (Done(c) /\ ~hasSimulate) =>
      (FailedWith(c, "UnsupportedOperation") /\ Len(providerCalls[c]) = 0)

\* C1 amended: every completed call on a provider without the simulation
\* capability, whose transaction building and argument splitting (lines 27-28)
\* raised nothing, failed with UnsupportedOperation and made no provider call.
C1_UnsupportedWhenArgsAccepted ==
  \A c \in Calls :
    (Done(c) /\ ~hasSimulate /\ ArgsAccepted(c)) =>
      (FailedWith(c, "UnsupportedOperation") /\ Len(providerCalls[c]) = 0)

C1_Witness ==
  \E c \in Calls :
    /\ ~hasSimulate /\ ArgsAccepted(c)
    /\ FailedWith(c, "UnsupportedOperation")
    /\ Len(args[c]) = idlArity + 1

\* C2: when the provider's simulation call raised an error whose code is a
\* key of the program's error table, the call failed with a ProgramError
\* whose message is the table's entry for that code.
C2_ProgramErrorCarriesTableMessage ==
  \A c \in Calls :
    (settled[c].t = "rejected" /\ settled[c].err.code \in DOMAIN IdlErrors) =>
      /\ FailedWith(c, "ProgramError")
      /\ outcome[c].reason.message = IdlErrors[settled[c].err.code]

C2_Witness ==
  \E c \in Calls :
    /\ settled[c].t = "rejected" /\ settled[c].err.code = 6001
    /\ FailedWith(c, "ProgramError")
    /\ outcome[c].reason.message = "Unauthorized"

\* C3: when the provider returned a result object without a log sequence,
\* the call failed with LogsNotFound: no success, no other error.
C3_NoLogsIsLogsNotFound ==
  \A c \in Calls :
    (ResolvedWithObject(c) /\ settled[c].resp.logs.t # "array") =>
      FailedWith(c, "LogsNotFound")

C3_Witness ==
  \E c \in Calls :
    /\ ResolvedWithObject(c) /\ settled[c].resp.logs.t = "null"
    /\ idlEvents.t = "array"
    /\ FailedWith(c, "LogsNotFound")

\* C4: when the provider's call completed without raising but returned no
\* result, the call failed with SimulationUnavailable and the log decoder
\* was never run.
C4_NoResultIsSimulationUnavailable ==
  \A c \in Calls :
    (settled[c].t = "resolved" /\ settled[c].resp.t = "undefined") =>
      (FailedWith(c, "SimulationUnavailable") /\ Len(parserCalls[c]) = 0)

C4_Witness ==
  \E c \in Calls :
    /\ settled[c].t = "resolved" /\ settled[c].resp.t = "undefined"
    /\ idlEvents.t = "array"
    /\ FailedWith(c, "SimulationUnavailable")

\* C5: the raw of every successful call is the log sequence the provider
\* returned: same length, same line at every position.
C5_RawIsProviderLogs ==
  \A c \in Calls :
    Succeeded(c) =>
      /\ ResolvedWithLogs(c)
      /\ "raw" \in DOMAIN outcome[c].value
      /\ outcome[c].value.raw.t = "array"
      /\ LET raw == outcome[c].value.raw.v
             logs == settled[c].resp.logs.v
         IN /\ Len(raw) = Len(logs)
            /\ \A i \in 1..Len(logs) : raw[i] = logs[i]

C5_Witness ==
  \E c \in Calls :
    /\ Succeeded(c)
    /\ Len(outcome[c].value.events) >= 1
    /\ Len(outcome[c].value.raw.v) > Len(outcome[c].value.events)

\* the IDL declares zero events: no events field, or an empty events array
DeclaresZeroEvents == EventSchemas(idlEvents) = {}

\* C6 as stated: when the IDL declares zero events, every successful call
\* returned an empty events sequence and the decoder was never handed the logs.
C6_ZeroEventsNeverDecodes ==
  \A c \in Calls :
    (Succeeded(c) /\ DeclaresZeroEvents) =>
      (outcome[c].value.events = << >> /\ Len(parserCalls[c]) = 0)

\* a log line the decoder turns into no event: no emission marker, or a
\* payload that matches no declared event
Unparseable(line) == ~line.marker \/ DecodeEvent(idlEvents, line).t = "null"

\* the event field by field, as decoded from one emission line
DecodedFrom(ev, line) ==
  /\ line.marker
  /\ \E e \in EventSchemas(idlEvents) :
       Discriminator(e) = line.disc /\ ev.name = e /\ ev.data = line.disc

\* C7: the events of every successful call are decoded from emission lines of
\* the provider's logs taken at strictly increasing positions: an event
\* decoded from an earlier line stands before one decoded from a later line.
C7_EventsInLogOrder ==
  \A c \in Calls :
    Succeeded(c) =>
      LET evts == outcome[c].value.events
          logs == settled[c].resp.logs.v
      IN \E f \in [1..Len(evts) -> 1..Len(logs)] :
           /\ \A i, j \in 1..Len(evts) : i < j => f[i] < f[j]
           /\ \A i \in 1..Len(evts) : DecodedFrom(evts[i], logs[f[i]])

C7_Witness ==
  \E c \in Calls :
    /\ Succeeded(c)
    /\ Len(outcome[c].value.events) = 2
    /\ outcome[c].value.events[1].name = "E2"
    /\ outcome[c].value.events[2].name = "E1"
    /\ Len(settled[c].resp.logs.v) = 3

\* the events a call returns when the provider resolves with the given lines
EventsReturnedFor(lines) ==
  AfterResolve(idlEvents, [t |-> "object", logs |-> [t |-> "array", v |-> lines]]).out.value.events

\* C8: a call whose provider returned a log sequence never failed, whatever
\* its lines, and its events are the events returned for the same sequence
\* with every unparseable line removed.
C8_UnparseableLinesAreSkipped ==
  \A c \in Calls :
    (Done(c) /\ ResolvedWithLogs(c)) =>
      /\ outcome[c].status = "fulfilled"
      /\ outcome[c].value.events =
           EventsReturnedFor(SelectSeq(settled[c].resp.logs.v, LAMBDA l : ~Unparseable(l)))

C8_Witness ==
  \E c \in Calls :
    /\ Succeeded(c) /\ ResolvedWithLogs(c)
    /\ LET logs == settled[c].resp.logs.v
       IN /\ Len(logs) = 3
          /\ ~Unparseable(logs[1]) /\ Unparseable(logs[2]) /\ ~Unparseable(logs[3])
          /\ logs[2].marker
    /\ Len(outcome[c].value.events) = 2

ClassifiedErrors ==
  {"UnsupportedOperation", "ProgramError", "UnknownError", "SimulationUnavailable",
   "LogsNotFound"}

\* the completed call ended in a success carrying events and raw, or in a
\* failure whose error is named in Names
EndedWithin(c, Names) ==
  \/ /\ outcome[c].status = "fulfilled"
     /\ {"events", "raw"} \subseteq DOMAIN outcome[c].value
     /\ outcome[c].value.raw.t = "array"
  \/ /\ outcome[c].status = "rejected"
     /\ outcome[c].reason.name \in Names

\* C9 as stated: every completed call ended in a success carrying events and
\* raw or in a failure with one of the five classified errors.
C9_OnlyClassifiedOutcomes ==
  \A c \in Calls : Done(c) => EndedWithin(c, ClassifiedErrors)

\* C9 amended: every completed call ended in a success carrying events and
\* raw or in a failure with one of the five classified errors or with the
\* MalformedArguments error of the argument resolver.
C9_ClassifiedOrMalformedOutcomes ==
  \A c \in Calls : Done(c) => EndedWithin(c, ClassifiedErrors \cup {"MalformedArguments"})

C9_Witness ==
  \E c \in Calls :
    /\ Succeeded(c)
    /\ outcome[c].value.events = << >>
    /\ Len(outcome[c].value.raw.v) = 2

\* C10: a call invokes the provider at most once, and exactly once when
\* lines 27-34 let it through; once the provider's promise settled the call
\* is over and the count of provider invocations never changes again.
C10_OneProviderCallNoRetry ==
  /\ [](\A c \in Calls :
          /\ Len(providerCalls[c]) <= 1
          /\ (ArgsAccepted(c) /\ hasSimulate) => Len(providerCalls[c]) = 1)
  /\ [][\A c \in Calls :
          /\ (settled[c] # settled'[c]) =>
               (pc'[c] = "done" /\ providerCalls'[c] = providerCalls[c])
          /\ (settled[c].t # "pending" \/ Done(c)) =>
               (providerCalls'[c] = providerCalls[c] /\ pc'[c] = pc[c])]_vars

C10_Witness ==
  \E c \in Calls :
    /\ Done(c)
    /\ settled[c].t = "rejected"
    /\ Len(providerCalls[c]) = 1

\* C11: when the provider's simulation call raised an error whose code is no
\* key of the program's error table, the call failed with an UnknownError
\* that carries the very error the provider raised.
C11_UnknownErrorKeepsCause ==
  \A c \in Calls :
    (settled[c].t = "rejected" /\ settled[c].err.code \notin DOMAIN IdlErrors) =>
      /\ FailedWith(c, "UnknownError")
      /\ "cause" \in DOMAIN outcome[c].reason
      /\ outcome[c].reason.cause = settled[c].err

C11_Witness ==
  \E c \in Calls :
    /\ settled[c].t = "rejected" /\ settled[c].err.code = 6002
    /\ FailedWith(c, "UnknownError")
    /\ outcome[c].reason.cause.code = 6002

\* C12 as stated: the events of every successful call are empty if and only
\* if the IDL declares no events.
C12_EmptyIffNoEventsDeclared ==
  \A c \in Calls :
    Succeeded(c) => (outcome[c].value.events = << >> <=> DeclaresZeroEvents)

\* C12 amended: the events of every successful call are empty if and only if
\* no line of the provider's logs is an emission that decodes to an event the
\* IDL declares; so they are empty whenever the IDL declares no events.
C12_EmptyIffNoDecodableEmission ==
  \A c \in Calls :
    Succeeded(c) =>
      /\ outcome[c].value.events = << >> <=>
           (\A i \in 1..Len(settled[c].resp.logs.v) : Unparseable(settled[c].resp.logs.v[i]))
      /\ DeclaresZeroEvents => outcome[c].value.events = << >>

C12_Witness ==
  \E c \in Calls :
    /\ Succeeded(c)
    /\ ~DeclaresZeroEvents
    /\ outcome[c].value.events = << >>
    /\ Len(settled[c].resp.logs.v) = 2
    /\ settled[c].resp.logs.v[1].marker

\* C15: every call whose argument list is shorter than the method's argument
\* schema failed with MalformedArguments and never invoked the provider.
C15_TooFewArgumentsIsMalformed ==
  \A c \in Calls :
    (pc[c] # "idle" /\ Len(args[c]) < idlArity) =>
      (FailedWith(c, "MalformedArguments") /\ Len(providerCalls[c]) = 0)

C15_Witness ==
  \E c \in Calls :
    /\ hasSimulate
    /\ Len(args[c]) < idlArity
    /\ FailedWith(c, "MalformedArguments")

\* the Context of an argument list: its last element when the list is one
\* longer than the method's arity, otherwise none
HasTrailingContext(a) == Len(a) = idlArity + 1

\* C16: in every call that reached the provider, the transaction builder was
\* invoked exactly once, before the provider, with the full argument list;
\* the provider was handed that transaction, and the signers and commitment
\* of the last argument when the list is one longer than the arity, and
\* neither otherwise.
C16_ProviderGetsTxSignersCommitment ==
  \A c \in Calls :
    (Len(providerCalls[c]) >= 1) =>
      LET a == args[c]
          req == providerCalls[c][1]
          last == a[Len(a)]
      IN /\ txCalls[c] = <<a>>
         /\ req.tx.builtFrom = a
         /\ IF HasTrailingContext(a)
              THEN /\ req.signers =
                        (IF "signers" \in DOMAIN last THEN last.signers ELSE "undefined")
                   /\ req.commitment =
                        (IF "options" \in DOMAIN last /\ "commitment" \in DOMAIN last.options
                           THEN last.options.commitment ELSE "undefined")
              ELSE req.signers = "undefined" /\ req.commitment = "undefined"

C16_Witness ==
  \E c \in Calls :
    /\ Len(providerCalls[c]) = 1
    /\ idlArity = 1
    /\ Len(args[c]) = 2
    /\ providerCalls[c][1].signers = "s1"
    /\ providerCalls[c][1].commitment = "confirmed"

\* C18: a provider result whose log sequence is present and empty is a
\* success with empty events and empty raw; a call failed with LogsNotFound
\* only when the result object carried no log sequence.
C18_EmptyLogsSucceed ==
  \A c \in Calls :
    /\ (Done(c) /\ ResolvedWithLogs(c) /\ Len(settled[c].resp.logs.v) = 0) =>
         /\ outcome[c].status = "fulfilled"
         /\ outcome[c].value.events = << >>
         /\ outcome[c].value.raw.t = "array"
         /\ Len(outcome[c].value.raw.v) = 0
    /\ FailedWith(c, "LogsNotFound") =>
         (ResolvedWithObject(c) /\ settled[c].resp.logs.t # "array")

C18_Witness ==
  \E c \in Calls :
    /\ Succeeded(c)
    /\ idlEvents.t = "array" /\ idlEvents.v # {}
    /\ Len(settled[c].resp.logs.v) = 0

\* the outcome of a call made alone with argument list a whose provider
\* round trip, if it has one, settles as st
SoloOutcome(a, st) ==
  LET split == splitArgsAndCtx(idlArity, a)
  IN IF split.threw THEN Rejected(split.error)
     ELSE IF ProviderCannotSimulate(hasSimulate) THEN Rejected(UnsupportedOperation)
     ELSE IF st.t = "resolved" THEN AfterResolve(idlEvents, st.resp).out
     ELSE Rejected(CatchHandler(st.err))

\* C13: with several calls in flight and their round trips settling in any
\* order, the outcome of every completed call is the outcome the call has
\* when made alone with the same arguments and the same provider response,
\* and its raw is its own provider's log sequence.
C13_CallsAreIndependent ==
  \A c \in Calls :
    Done(c) =>
      /\ outcome[c] = SoloOutcome(args[c], settled[c])
      /\ Succeeded(c) =>
           /\ outcome[c].value.raw = settled[c].resp.logs
           /\ Len(outcome[c].value.events) <= Len(settled[c].resp.logs.v)

C13_Witness ==
  /\ history = << [op |-> "call", call |-> 1], [op |-> "call", call |-> 2],
                  [op |-> "settle", call |-> 2], [op |-> "settle", call |-> 1] >>
  /\ Succeeded(1) /\ Succeeded(2)
  /\ Len(outcome[1].value.events) = 1
  /\ Len(outcome[2].value.events) = 2

\* C14: two successful calls on the same program whose providers returned
\* the same log sequence returned the same events, whichever came first.
C14_SameLogsSameEvents ==
  \A c, d \in Calls :
    (Succeeded(c) /\ Succeeded(d) /\ settled[c].resp.logs = settled[d].resp.logs) =>
      outcome[c].value.events = outcome[d].value.events

C14_Witness ==
  /\ history = << [op |-> "call", call |-> 1], [op |-> "settle", call |-> 1],
                  [op |-> "call", call |-> 2], [op |-> "settle", call |-> 2] >>
  /\ Succeeded(1) /\ Succeeded(2)
  /\ settled[1].resp.logs = settled[2].resp.logs
  /\ Len(outcome[2].value.events) = 2

\* C17: a call that is neither unmade nor complete is waiting for its provider
\* round trip, invoked once and not yet settled, and nowhere else; and every
\* call made eventually completes when that round trip eventually settles.
C17_EveryCallCompletes ==
  /\ [](\A c \in Calls :
          (pc[c] # "idle" /\ ~Done(c)) =>
            /\ pc[c] = "awaiting"
            /\ settled[c].t = "pending"
            /\ Len(providerCalls[c]) = 1)
  /\ \A c \in Calls : (pc[c] # "idle") ~> Done(c)

C17_Witness ==
  \E c \in Calls :
    /\ Succeeded(c)
    /\ Len(settled[c].resp.logs.v) = 3
    /\ Len(outcome[c].value.events) = 3

====
